---- MODULE Spec2Model ----
(***************************************************************************)
(* Storage abstraction layer of mina-on-chain-voting (server/src/storage). *)
(* One provider handle is built by create_storage_provider and then used   *)
(* through list_objects / get_object.  Strings are sequences of one-char   *)
(* strings, Option<T> is a sequence of length 0 (None) or 1 (Some).        *)
(***************************************************************************)
EXTENDS Integers, Sequences, FiniteSets, TLC

VARIABLES
  config,      \* OcvConfig handed to the factory
  adc,         \* environment: does ambient credential discovery succeed
  store,       \* remote bucket listing: the pages the remote store serves
  created,     \* Option<Result>: what create_storage_provider returned
  provider,    \* Option<provider handle>
  discoveries, \* number of ClientConfig::default().with_auth() runs so far
  call,        \* the call in progress (locals of list_objects / get_object)
  result,      \* Option<Result> of the call
  requests,    \* remote requests issued by the call, in order
  responses,   \* what the remote answered to them, in order
  logs,        \* warn-level diagnostics emitted by the call
  remote,      \* how the remote answers: anything, or one fixed way
  previous,    \* Option: the call the caller made before, and what it got
  other        \* a second caller's call on the shared handle, while suspended

vars == <<config, adc, store, created, provider, discoveries, call, result,
          requests, responses, logs, remote, previous, other>>

----------------------------------------------------------------------------
(* Bounds of the model *)

\* most pages a remote listing is made of (one more than the page cap)
MaxRemotePages == 11

\* most pages of a listing that two concurrent callers read
MaxConcurrentPages == 3

----------------------------------------------------------------------------
(* Option and string helpers *)

None == <<>>

Some(x) == <<x>>

IsSome(o) == Len(o) = 1

Unwrap(o) == o[1]

\* Vec::extend
Extend(v, w) == v \o w

RECURSIVE Flatten(_)
\* concatenation of a sequence of sequences
Flatten(ss) == IF ss = <<>> THEN <<>> ELSE Head(ss) \o Flatten(Tail(ss))

\* str::starts_with on char sequences
StartsWith(s, p) == Len(p) <= Len(s) /\ SubSeq(s, 1, Len(p)) = p

\* str::contains(char)
ContainsChar(s, c) == \E i \in 1..Len(s) : s[i] = c

UppercaseChars == {"A", "B", "G", "C", "S", "W"}

\* char::is_uppercase
is_uppercase(c) == c \in UppercaseChars

\* characters urlencoding::encode leaves alone: alphanumerics and - _ . ~
Unreserved ==
  {"a", "b", "k", "t", "x", "z", "A", "B", "-", "_", ".", "~"}
    \cup {ToString(d) : d \in 0..99}

\* percent escape of one reserved character
PercentEscape(c) ==
  CASE c = "/" -> <<"%", "2", "F">>
    [] c = "%" -> <<"%", "2", "5">>
    [] c = " " -> <<"%", "2", "0">>
    [] c = "+" -> <<"%", "2", "B">>
    [] OTHER   -> <<"%", "3", "F">>

RECURSIVE urlencoding_encode(_)
\* urlencoding::encode
urlencoding_encode(s) ==
  IF s = <<>> THEN <<>>
  ELSE (IF Head(s) \in Unreserved THEN <<Head(s)>> ELSE PercentEscape(Head(s)))
         \o urlencoding_encode(Tail(s))

\* the character a percent escape stands for
PercentUnescape(h) ==
  CASE h = <<"2", "F">> -> "/"
    [] h = <<"2", "5">> -> "%"
    [] h = <<"2", "0">> -> " "
    [] h = <<"2", "B">> -> "+"
    [] OTHER            -> "?"

RECURSIVE UrlDecode(_)
\* query-parameter decoding done by the remote endpoint: %XX escapes, and a
\* raw + stands for a space
UrlDecode(s) ==
  IF s = <<>> THEN <<>>
  ELSE IF Head(s) = "%" /\ Len(s) >= 3
       THEN <<PercentUnescape(SubSeq(s, 2, 3))>> \o UrlDecode(SubSeq(s, 4, Len(s)))
       ELSE <<(IF Head(s) = "+" THEN " " ELSE Head(s))>> \o UrlDecode(Tail(s))

----------------------------------------------------------------------------
(* Results and error messages.  A message is the format string cut at its  *)
(* placeholders (parts) and the values put into them (args).               *)

Ok(v) == [ok |-> v]

Err(m) == [err |-> m]

IsOk(r) == "ok" \in DOMAIN r

IsErr(r) == "err" \in DOMAIN r

\* anyhow!(format, args...)
anyhow(parts, args) == [parts |-> parts, args |-> args]

\* the text of an SDK error mentions `word`: err.to_string().contains(word)
TextContains(text, word) == \E i \in 1..Len(text) : text[i] = word

\* status code as it is printed into a message
StatusText(status) == <<ToString(status)>>

----------------------------------------------------------------------------
(* The remote store (environment of the adapters) *)

K1 == <<"k">>

K2 == <<"a", "+", "x">>

\* bytes of the objects the store holds, by key
StoredObjects == (K1 :> <<1, 2>>) @@ (K2 :> <<>>)

\* the items field of one listing page: absent, or object names in the order
\* the remote reports them (not sorted, duplicates across pages allowed); a
\* page none of whose names matches the prefix carries an empty items array
PageKinds == {None, Some(<<K1>>), Some(<<K1, K2>>)}

BasePatterns ==
  {<<a>> : a \in PageKinds} \cup {<<a, b>> : a \in PageKinds, b \in PageKinds}

\* a listing of n pages repeating the base pattern
StoreOf(n, base) == [i \in 1..n |-> base[((i - 1) % Len(base)) + 1]]

Stores == {StoreOf(n, b) : n \in 1..MaxRemotePages, b \in BasePatterns}

\* continuation token the remote hands out with page i
TokenOf(i) == <<"t", "+", ToString(i)>>

\* names of page i that match the (decoded) prefix
PageNames(st, i, prefix) ==
  IF st[i] = None THEN None
  ELSE Some(SelectSeq(Unwrap(st[i]),
                      LAMBDA k : prefix = None \/ StartsWith(k, Unwrap(prefix))))

\* continuation token of page i: present on every page but the last
PageToken(st, i) == IF i < Len(st) THEN Some(TokenOf(i)) ELSE None

\* every key of the listing matching the prefix, in listing order
AllMatchingKeys(st, prefix) ==
  Flatten([i \in 1..Len(st) |->
             IF PageNames(st, i, prefix) = None THEN <<>>
             ELSE Unwrap(PageNames(st, i, prefix))])

\* the page a decoded pageToken parameter points at; 0 when it points nowhere
PageIndexOf(st, token) ==
  IF token = None THEN 1
  ELSE IF \E i \in 1..(Len(st) - 1) : TokenOf(i) = Unwrap(token)
       THEN (CHOOSE i \in 1..(Len(st) - 1) : TokenOf(i) = Unwrap(token)) + 1
       ELSE 0

OptDecode(o) == IF o = None THEN None ELSE Some(UrlDecode(Unwrap(o)))

\* JSON bodies: is the text JSON at all, which fields the object has
GarbageBody ==
  [wellformed |-> FALSE, fields |-> {}, items |-> <<>>, nextPageToken |-> <<>>]

ErrorBody ==
  [wellformed |-> TRUE, fields |-> {"error"}, items |-> <<>>, nextPageToken |-> <<>>]

\* JSON listing page: items and nextPageToken are left out when absent
PageBody(names, token) ==
  [wellformed |-> TRUE,
   fields |-> (IF names = None THEN {} ELSE {"items"})
                \cup (IF token = None THEN {} ELSE {"nextPageToken"}),
   items |-> IF names = None THEN <<>>
             ELSE [j \in 1..Len(Unwrap(names)) |-> [name |-> Unwrap(names)[j]]],
   nextPageToken |-> IF token = None THEN <<>> ELSE Unwrap(token)]

HttpErrorStatuses == {400, 401, 403, 404, 500}

TransportFailure == [transport |-> TRUE, status |-> 0, body |-> GarbageBody]

\* answers of the public JSON listing endpoint to one GET
HttpListResponses(st, req) ==
  LET i == PageIndexOf(st, OptDecode(req.pageToken))
      page == PageBody(PageNames(st, i, OptDecode(req.prefix)), PageToken(st, i))
  IN  {TransportFailure}
        \cup {[transport |-> FALSE, status |-> s, body |-> ErrorBody] :
                s \in HttpErrorStatuses}
        \cup {[transport |-> FALSE, status |-> 500, body |-> GarbageBody]}
        \cup (IF i = 0 THEN {}
              ELSE {[transport |-> FALSE, status |-> 200, body |-> b] :
                      b \in {page, GarbageBody}})

ErrorBytes == <<0>>

GetTransportFailure ==
  [transport |-> TRUE, status |-> 0, readable |-> FALSE, bytes |-> <<>>]

\* answers of the public media-download endpoint to one GET
HttpGetResponses(req) ==
  LET key == UrlDecode(req.object)
  IN  {GetTransportFailure}
        \cup {[transport |-> FALSE, status |-> s, readable |-> TRUE, bytes |-> ErrorBytes] :
                s \in HttpErrorStatuses}
        \cup (IF key \in DOMAIN StoredObjects
              THEN {[transport |-> FALSE, status |-> 200, readable |-> r,
                     bytes |-> StoredObjects[key]] : r \in BOOLEAN}
              ELSE {})

\* texts of the errors the SDK clients report
SdkErrorTexts ==
  {<<"status", "401">>, <<"status", "403">>, <<"status", "404">>,
   <<"status", "500">>, <<"connection refused">>}

\* answers of the credentialed GCS client to list_objects: one page
GcsSdkListResponses(st, req) ==
  {Err(t) : t \in SdkErrorTexts}
    \cup {Ok([items |-> (LET names == PageNames(st, 1, req.prefix)
                         IN  IF names = None THEN None
                             ELSE Some([j \in 1..Len(Unwrap(names)) |->
                                          [name |-> Unwrap(names)[j]]])),
              next_page_token |-> PageToken(st, 1)])}

\* answers of the S3 client to list_objects_v2: one page
S3ListResponses(st, req) ==
  {Err(t) : t \in SdkErrorTexts}
    \cup {Ok([contents |-> (LET names == PageNames(st, 1, req.prefix)
                            IN  IF names = None THEN None
                                ELSE Some([j \in 1..Len(Unwrap(names)) |->
                                             [key |-> Some(Unwrap(names)[j])]])),
              next_continuation_token |-> PageToken(st, 1)])}

\* answers of an SDK client to a download: the stored bytes or an error
SdkGetResponses(req) ==
  {Err(t) : t \in SdkErrorTexts}
    \cup (IF req.object \in DOMAIN StoredObjects
          THEN {Ok(StoredObjects[req.object])} ELSE {})

\* the remote answers in any of the ways it can
AnyAnswer == [transport |-> FALSE, status |-> 0, at |-> 0]

\* the remote serves the store as it is
NoFault == [transport |-> FALSE, status |-> 200, at |-> 0]

\* an unchanged remote: the request for page `at` is answered with a transport
\* failure or with the error status, every other request with the stored data
Policies ==
  {NoFault}
    \cup {[transport |-> TRUE, status |-> 0, at |-> k] : k \in 1..2}
    \cup {[transport |-> FALSE, status |-> s, at |-> k] : s \in {401, 404, 500}, k \in 1..2}

\* the answer of the kind the policy asks for, among the possible answers
Fits(resp, transport, status) ==
  IF "ok" \in DOMAIN resp THEN ~transport /\ status = 200
  ELSE IF "err" \in DOMAIN resp
  THEN resp.err = (IF transport THEN <<"connection refused">>
                   ELSE <<"status", ToString(status)>>)
  ELSE /\ resp.transport = transport
       /\ ~transport => resp.status = status
       /\ "body" \in DOMAIN resp => resp.body.wellformed = ~transport
       /\ "readable" \in DOMAIN resp => resp.readable = ~transport

\* the answers the remote may give to the request for page idx, out of the
\* possible ones: all of them, or the one its policy fixes (what is not
\* stored is answered with 404)
Permitted(rm, idx, answers) ==
  IF rm = AnyAnswer THEN answers
  ELSE LET faulty == rm.at = idx
           wanted == {r \in answers :
                        Fits(r, faulty /\ rm.transport, IF faulty THEN rm.status ELSE 200)}
       IN  IF wanted # {} THEN wanted
           ELSE {r \in answers : Fits(r, FALSE, 404)}

----------------------------------------------------------------------------
(* Requests *)

MaxResults == 1000

\* maxResults is a parameter of the listing URL only (0: not sent)
Request(channel, op, bucket, prefix, pageToken, object) ==
  [channel |-> channel, op |-> op, bucket |-> bucket, prefix |-> prefix,
   pageToken |-> pageToken, object |-> object,
   maxResults |-> IF channel = "http" /\ op = "list" THEN MaxResults ELSE 0]

OptEncode(o) == IF o = None THEN None ELSE Some(urlencoding_encode(Unwrap(o)))

\* the listing URL of one loop iteration
list_url(bucket, prefix, page_token) ==
  Request("http", "list", bucket, OptEncode(prefix), OptEncode(page_token), <<>>)

\* the direct-media URL
get_url(bucket, key) ==
  Request("http", "get", bucket, None, None, urlencoding_encode(key))

----------------------------------------------------------------------------
(* Provider construction *)

\* ClientConfig::default().with_auth(): ambient discovery, the path hint is
\* not an input
with_auth(env) == env

Handle(kind, client, project_id, region) ==
  [kind |-> kind, client |-> client, project_id |-> project_id, region |-> region]

\* a constructor that trusts the path hint instead of discovery
GcsProvider_new_hint(project_id, service_account_key_path, env) ==
  Ok(Handle("gcs",
            IF IsSome(service_account_key_path) THEN "Authenticated"
            ELSE IF with_auth(env) THEN "Authenticated" ELSE "Anonymous",
            project_id, <<>>))

GcsProvider_new(project_id, service_account_key_path, env) ==
  LET client ==
        IF IsSome(service_account_key_path)
        THEN (IF with_auth(env) THEN "Authenticated" ELSE "Anonymous")
        ELSE (IF with_auth(env) THEN "Authenticated" ELSE "Anonymous")
  IN  Ok(Handle("gcs", client, project_id, <<>>))

AwsS3Provider_new(region) == Ok(Handle("aws", "S3", <<>>, region))

\* str::to_lowercase on the selector values of the model
to_lowercase(sel) ==
  CASE sel = "GCS" -> "gcs" [] sel = "AWS" -> "aws" [] OTHER -> sel

\* the value the factory matches on
selector_matched_lowercased(cfg) == to_lowercase(cfg.storage_provider)

selector_matched(cfg) == cfg.storage_provider

\* a factory that constructs first and checks the project id afterwards
project_id_checked_late(cfg) == FALSE

\* the gcs arm fails before construction when the project id is absent
project_id_checked_first(cfg) == cfg.gcs_project_id = None

\* returns the Result and how many credential discoveries were run
create_storage_provider(cfg, env) ==
  CASE selector_matched(cfg) = "aws" ->
         [ret |-> AwsS3Provider_new(cfg.aws_region), discoveries |-> 0]
    [] selector_matched(cfg) = "gcs" ->
         IF project_id_checked_first(cfg)
         THEN [ret |-> Err(anyhow(<<"GCS_PROJECT_ID required when using GCS provider">>,
                                  <<>>)),
               discoveries |-> 0]
         ELSE [ret |-> GcsProvider_new(IF cfg.gcs_project_id = None THEN <<>>
                                       ELSE Unwrap(cfg.gcs_project_id),
                                       cfg.gcs_service_account_key_path, env),
               discoveries |-> 1]
    [] OTHER ->
         [ret |-> Err(anyhow(<<"Unsupported storage provider: ",
                               ". Supported providers: aws, gcs">>,
                             <<(<<cfg.storage_provider>>)>>)),
          discoveries |-> 0]

----------------------------------------------------------------------------
(* Secondary backend: AwsS3Provider *)

\* the error of the SDK passed on by `?`
sdk_error(text) == anyhow(<<"">>, <<text>>)

\* .filter_map(|obj| obj.key)
filter_map_key(objs) ==
  LET kept == SelectSeq(objs, LAMBDA o : IsSome(o.key))
  IN  [j \in 1..Len(kept) |-> Unwrap(kept[j].key)]

Aws_list_request(bucket, prefix) == Request("s3", "list", bucket, prefix, None, <<>>)

\* AwsS3Provider::list_objects, given the answer to its one request
Aws_list_objects(bucket, prefix, resp) ==
  [ret |-> IF IsErr(resp) THEN Err(sdk_error(resp.err))
           ELSE Ok(filter_map_key(IF resp.ok.contents = None THEN <<>>
                                  ELSE Unwrap(resp.ok.contents))),
   reqs |-> <<Aws_list_request(bucket, prefix)>>,
   resps |-> <<resp>>,
   logs |-> {}]

Aws_get_request(bucket, key) == Request("s3", "get", bucket, None, None, key)

\* AwsS3Provider::get_object, given the answer to its one request
Aws_get_object(bucket, key, resp) ==
  [ret |-> IF IsErr(resp) THEN Err(sdk_error(resp.err)) ELSE Ok(resp.ok),
   reqs |-> <<Aws_get_request(bucket, key)>>,
   resps |-> <<resp>>,
   logs |-> {}]

----------------------------------------------------------------------------
(* Primary backend: GcsProvider *)

PageCap == 10

EmptyBucketError ==
  anyhow(<<"GCS bucket name cannot be empty. Please check your BUCKET_NAME environment variable.">>,
         <<>>)

\* bucket.contains(' ') || bucket.contains('_') || any uppercase
bucket_is_suspicious(bucket) ==
  \/ ContainsChar(bucket, " ")
  \/ ContainsChar(bucket, "_")
  \/ \E i \in 1..Len(bucket) : is_uppercase(bucket[i])

\* warnings of the bucket-name validation of list_objects
validation_logs(bucket) ==
  IF bucket_is_suspicious(bucket) THEN {"invalid_bucket_name_format"} ELSE {}

AuthRequiredBucket(bucket) ==
  anyhow(<<"GCS bucket '",
           "' requires authentication. Please set GCS_PROJECT_ID and optionally GCS_SERVICE_ACCOUNT_KEY_PATH environment variables.">>,
         <<bucket>>)

BucketNotFound(bucket) ==
  anyhow(<<"GCS bucket '",
           "' not found. Please check the bucket name and project configuration.">>,
         <<bucket>>)

\* a status check that only knows the authentication failures
is_client_error_auth_only(status) == status = 401 \/ status = 403

\* StatusCode::is_client_error
is_client_error(status) == 400 <= status /\ status < 500

\* a classification that reports every client error as an authentication one
list_status_error_all_auth(status, bucket) == AuthRequiredBucket(bucket)

\* the error list_objects (Anonymous) returns for a client-error status
list_status_error(status, bucket) ==
  IF status = 401 \/ status = 403 THEN AuthRequiredBucket(bucket)
  ELSE IF status = 404 THEN BucketNotFound(bucket)
  ELSE anyhow(<<"Failed to access GCS bucket '", "': HTTP ">>,
              <<bucket, StatusText(status)>>)

\* response.json::<GcsListResponse>(): unknown fields are ignored, absent
\* Option fields are None
parse_GcsListResponse(body) ==
  IF ~body.wellformed THEN Err(<<"error decoding response body">>)
  ELSE Ok([items |-> IF "items" \in body.fields THEN Some(body.items) ELSE None,
           next_page_token |-> IF "nextPageToken" \in body.fields
                               THEN Some(body.nextPageToken) ELSE None])

\* items.into_iter().map(|obj| obj.name).collect()
object_names(items) == [j \in 1..Len(items) |-> items[j].name]

\* a loop without the page cap
loop_breaks_uncapped(page_token, page_count) == page_token = None

\* if page_token.is_none() || page_count >= 10 { break }
loop_breaks(page_token, page_count) ==
  page_token = None \/ page_count >= PageCap

\* the URL the next loop iteration of call c requests
next_url(c) == list_url(c.bucket, c.prefix, c.page_token)

\* an accumulator that keeps the last page only
accumulate_last_page(all_objects, items) ==
  IF IsSome(items) THEN object_names(Unwrap(items)) ELSE all_objects

\* if let Some(items) = list_response.items { all_objects.extend(...) }
accumulate(all_objects, items) ==
  IF IsSome(items) THEN Extend(all_objects, object_names(Unwrap(items)))
  ELSE all_objects

\* one iteration of the pagination loop of list_objects (Anonymous), given
\* the answer to its request: the locals afterwards, and the return value if
\* the iteration leaves the function
Anonymous_list_iteration(c, resp) ==
  LET leave(r, lg) == [call |-> [c EXCEPT !.pc = "done"], ret |-> Some(r), logs |-> lg]
      parsed == parse_GcsListResponse(resp.body)
      all == accumulate(c.all_objects, parsed.ok.items)
      count == c.page_count + 1
      token == parsed.ok.next_page_token
      after == [c EXCEPT !.all_objects = all, !.page_count = count, !.page_token = token]
  IN  IF resp.transport
      THEN leave(Err(anyhow(<<"Failed to list objects in GCS bucket '", "': ">>,
                            <<c.bucket, <<"error sending request">> >>)), {})
      ELSE IF is_client_error(resp.status)
      THEN leave(Err(list_status_error(resp.status, c.bucket)),
                 IF resp.status = 404 THEN {"bucket_does_not_exist"} ELSE {})
      ELSE IF IsErr(parsed)
      THEN leave(Err(anyhow(<<"Failed to parse GCS response for bucket '", "': ">>,
                            <<c.bucket, parsed.err>>)), {})
      ELSE IF loop_breaks(token, count)
      THEN [call |-> [after EXCEPT !.pc = "done"],
            ret |-> Some(Ok(all)),
            logs |-> IF count >= PageCap THEN {"stopped_fetching_after_pages"} ELSE {}]
      ELSE [call |-> after, ret |-> None, logs |-> {}]

Gcs_list_request(bucket, prefix) == Request("gcs_sdk", "list", bucket, prefix, None, <<>>)

\* the map_err of list_objects (Authenticated): classification by error text
Authenticated_list_error(text, bucket) ==
  IF TextContains(text, "401") \/ TextContains(text, "403")
  THEN anyhow(<<"GCS bucket '",
                "' requires authentication. Please set GCS_PROJECT_ID and optionally GCS_SERVICE_ACCOUNT_KEY_PATH environment variables. Error: ">>,
              <<bucket, text>>)
  ELSE IF TextContains(text, "404") THEN BucketNotFound(bucket)
  ELSE anyhow(<<"Failed to list objects in GCS bucket '", "': ">>, <<bucket, text>>)

\* list_objects (Authenticated arm), given the answer to its one request
Authenticated_list_objects(bucket, prefix, resp) ==
  [ret |-> IF IsErr(resp) THEN Err(Authenticated_list_error(resp.err, bucket))
           ELSE Ok(object_names(IF resp.ok.items = None THEN <<>>
                                ELSE Unwrap(resp.ok.items))),
   reqs |-> <<Gcs_list_request(bucket, prefix)>>,
   resps |-> <<resp>>,
   logs |-> IF IsErr(resp) /\ ~TextContains(resp.err, "401")
               /\ ~TextContains(resp.err, "403") /\ TextContains(resp.err, "404")
            THEN {"bucket_does_not_exist"} ELSE {}]

AuthRequiredObject(key, bucket, tail) ==
  anyhow(<<"GCS object '", "' in bucket '",
           "' requires authentication. Please set GCS_PROJECT_ID and optionally GCS_SERVICE_ACCOUNT_KEY_PATH environment variables.">>
           \o tail[1],
         <<key, bucket>> \o tail[2])

\* the error get_object (Anonymous) returns for a client-error status
get_status_error(status, key, bucket) ==
  IF status = 401 \/ status = 403 THEN AuthRequiredObject(key, bucket, <<<<>>, <<>>>>)
  ELSE anyhow(<<"Failed to access GCS object '", "' in bucket '", "': HTTP ">>,
              <<key, bucket, StatusText(status)>>)

\* response.bytes()
body_bytes(resp) == resp.bytes

\* get_object (Anonymous arm), given the answer to its one request
Anonymous_get_object(bucket, key, resp) ==
  [ret |-> IF resp.transport
           THEN Err(anyhow(<<"Failed to download object '", "' from GCS bucket '", "': ">>,
                           <<key, bucket, <<"error sending request">> >>))
           ELSE IF is_client_error(resp.status)
           THEN Err(get_status_error(resp.status, key, bucket))
           ELSE IF ~resp.readable
           THEN Err(anyhow(<<"Failed to read object '", "' from GCS bucket '", "': ">>,
                           <<key, bucket, <<"error decoding response body">> >>))
           ELSE Ok(body_bytes(resp)),
   reqs |-> <<get_url(bucket, key)>>,
   resps |-> <<resp>>,
   logs |-> {}]

Gcs_get_request(bucket, key) == Request("gcs_sdk", "get", bucket, None, None, key)

\* the map_err of get_object (Authenticated)
Authenticated_get_error(text, key, bucket) ==
  IF TextContains(text, "401") \/ TextContains(text, "403")
  THEN AuthRequiredObject(key, bucket, <<<<" Error: ">>, <<text>>>>)
  ELSE anyhow(<<"Failed to download object '", "' from GCS bucket '", "': ">>,
              <<key, bucket, text>>)

\* get_object (Authenticated arm), given the answer to its one request
Authenticated_get_object(bucket, key, resp) ==
  [ret |-> IF IsErr(resp) THEN Err(Authenticated_get_error(resp.err, key, bucket))
           ELSE Ok(resp.ok),
   reqs |-> <<Gcs_get_request(bucket, key)>>,
   resps |-> <<resp>>,
   logs |-> {}]

----------------------------------------------------------------------------
(* Inputs *)

Selectors == {"aws", "gcs", "GCS", "AWS", "", "unsupported"}

Configs ==
  [storage_provider : Selectors,
   gcs_project_id : {None, Some(<<"p">>)},
   gcs_service_account_key_path : {None, Some(<<"/", "k">>)},
   aws_region : {<<"us-west-2">>}]

Buckets == {<<>>, <<"b">>, <<"B">>, <<"b", "_">>, <<"b", " ">>}

Prefixes == {None, Some(<<"a", "+">>), Some(<<"z">>)}

ObjectKeys == {K1, K2, <<"z">>}

----------------------------------------------------------------------------
(* State machine *)

IdleCall ==
  [pc |-> "idle", op |-> "none", bucket |-> <<>>, prefix |-> None, key |-> <<>>,
   all_objects |-> <<>>, page_token |-> None, page_count |-> 0]

\* a caller that is not calling
IdleCaller ==
  [call |-> IdleCall, result |-> None, requests |-> <<>>, responses |-> <<>>,
   logs |-> {}]

\* locals that survive from the caller's previous call
locals_kept(prev) ==
  IF prev = None THEN IdleCall
  ELSE [IdleCall EXCEPT !.all_objects = Unwrap(prev).call.all_objects]

\* let mut all_objects = Vec::new(); let mut page_token = None;
\* let mut page_count = 0: every call starts from fresh locals
fresh_locals(prev) == IdleCall

\* loop state kept in a place all calls on the handle share
locals_shared(own, others) ==
  IF others.pc = "list_loop" THEN [own EXCEPT !.page_token = others.page_token]
  ELSE own

\* the locals live in the call's own frame (&self is never written)
own_locals(own, others) == own

\* the page of the listing a request asks for
PageAsked(st, req) ==
  IF req.channel = "http" /\ req.op = "list"
  THEN PageIndexOf(st, OptDecode(req.pageToken)) ELSE 1

Init ==
  /\ config \in Configs
  /\ adc \in BOOLEAN
  /\ store \in Stores
  /\ created = None
  /\ provider = None
  /\ discoveries = 0
  /\ call = IdleCall
  /\ result = None
  /\ requests = <<>>
  /\ responses = <<>>
  /\ logs = {}
  /\ remote = AnyAnswer
  /\ previous = None
  /\ other = IdleCaller

\* process startup: OcvConfig::to_ocv calls the factory once
CreateStorageProvider ==
  /\ created = None
  /\ LET out == create_storage_provider(config, adc)
     IN  /\ created' = Some(out.ret)
         /\ provider' = IF IsOk(out.ret) THEN Some(out.ret.ok) ELSE None
         /\ discoveries' = discoveries + out.discoveries
  /\ UNCHANGED <<config, adc, store, call, result, requests, responses, logs,
                 remote, previous, other>>

\* the call c returns with outcome out, having logged lg before
Return(c, out, lg) ==
  /\ call' = [c EXCEPT !.pc = "done"]
  /\ result' = Some(out.ret)
  /\ requests' = out.reqs
  /\ responses' = out.resps
  /\ logs' = lg \cup out.logs

\* an outcome without any remote request
Local(ret, lg) == [ret |-> ret, reqs |-> <<>>, resps |-> <<>>, logs |-> lg]

\* a dispatch that always takes the anonymous HTTP client
client_arm_always_anonymous(h) == "Anonymous"

\* match &self.client
client_arm(h) == h.client

\* a validation that refuses every name it would warn about
bucket_is_invalid(bucket) == bucket = <<>> \/ bucket_is_suspicious(bucket)

\* bucket.is_empty()
bucket_is_empty(bucket) == bucket = <<>>

\* a caller invokes provider.list_objects(bucket, prefix)
ListObjects(bucket, prefix) ==
  /\ provider # None
  /\ call.pc = "idle"
  /\ LET h == Unwrap(provider)
         c == [fresh_locals(previous) EXCEPT !.op = "list", !.bucket = bucket, !.prefix = prefix]
     IN  IF h.kind = "aws"
         THEN \E resp \in Permitted(remote, 1,
                  S3ListResponses(store, Aws_list_request(bucket, prefix))) :
                Return(c, Aws_list_objects(bucket, prefix, resp), {})
         ELSE IF bucket_is_empty(bucket)
         THEN Return(c, Local(Err(EmptyBucketError), {"empty_bucket_name"}), {})
         ELSE IF client_arm(h) = "Authenticated"
         THEN \E resp \in Permitted(remote, 1,
                  GcsSdkListResponses(store, Gcs_list_request(bucket, prefix))) :
                Return(c, Authenticated_list_objects(bucket, prefix, resp),
                       validation_logs(bucket))
         ELSE /\ call' = [c EXCEPT !.pc = "list_loop"]
              /\ result' = None
              /\ requests' = <<>>
              /\ responses' = <<>>
              /\ logs' = validation_logs(bucket)
  /\ UNCHANGED <<config, adc, store, created, provider, discoveries, remote,
                 previous, other>>

\* one iteration of the pagination loop of the call in progress
ListObjectsPage ==
  /\ call.pc = "list_loop"
  /\ LET c == own_locals(call, other.call)
     IN  \E resp \in Permitted(remote, PageAsked(store, next_url(c)),
                               HttpListResponses(store, next_url(c))) :
       LET out == Anonymous_list_iteration(c, resp)
       IN  /\ call' = out.call
           /\ result' = out.ret
           /\ requests' = Append(requests, next_url(c))
           /\ responses' = Append(responses, resp)
           /\ logs' = logs \cup out.logs
  /\ UNCHANGED <<config, adc, store, created, provider, discoveries, remote,
                 previous, other>>

\* a caller invokes provider.get_object(bucket, key)
GetObject(bucket, key) ==
  /\ provider # None
  /\ call.pc = "idle"
  /\ LET h == Unwrap(provider)
         c == [fresh_locals(previous) EXCEPT !.op = "get", !.bucket = bucket, !.key = key]
     IN  IF h.kind = "aws"
         THEN \E resp \in Permitted(remote, 1, SdkGetResponses(Aws_get_request(bucket, key))) :
                Return(c, Aws_get_object(bucket, key, resp), {})
         ELSE IF bucket_is_empty(bucket)
         THEN Return(c, Local(Err(EmptyBucketError), {"empty_bucket_name"}), {})
         ELSE IF client_arm(h) = "Authenticated"
         THEN \E resp \in Permitted(remote, 1, SdkGetResponses(Gcs_get_request(bucket, key))) :
                Return(c, Authenticated_get_object(bucket, key, resp), {})
         ELSE \E resp \in Permitted(remote, 1, HttpGetResponses(get_url(bucket, key))) :
                Return(c, Anonymous_get_object(bucket, key, resp), {})
  /\ UNCHANGED <<config, adc, store, created, provider, discoveries, remote,
                 previous, other>>

\* the caller has consumed the returned value; the locals of the call are gone
CallerTakesResult ==
  /\ call.pc = "done"
  /\ call' = IdleCall
  /\ result' = None
  /\ requests' = <<>>
  /\ responses' = <<>>
  /\ logs' = {}
  /\ UNCHANGED <<config, adc, store, created, provider, discoveries, remote,
                 previous, other>>

Next ==
  \/ CreateStorageProvider
  \/ CallerTakesResult
  \/ \E bucket \in Buckets, prefix \in Prefixes : ListObjects(bucket, prefix)
  \/ ListObjectsPage
  \/ \E bucket \in Buckets, key \in ObjectKeys : GetObject(bucket, key)

Spec == Init /\ [][Next]_vars

----------------------------------------------------------------------------
(* A caller that repeats its call against an unchanged remote *)

\* configurations a handle is made from
DeployedConfigs ==
  {c \in Configs : /\ c.storage_provider \in {"aws", "gcs"}
                   /\ c.gcs_project_id # None
                   /\ c.gcs_service_account_key_path = None}

\* stores all of whose pages are alike
UniformStores == {StoreOf(n, <<a>>) : n \in 1..MaxRemotePages, a \in PageKinds}

RepeatBuckets == {<<>>, <<"b">>}

InitRepeat ==
  /\ config \in DeployedConfigs
  /\ adc \in BOOLEAN
  /\ store \in UniformStores
  /\ created = None
  /\ provider = None
  /\ discoveries = 0
  /\ call = IdleCall
  /\ result = None
  /\ requests = <<>>
  /\ responses = <<>>
  /\ logs = {}
  /\ remote \in Policies
  /\ previous = None
  /\ other = IdleCaller

\* the caller keeps what the call returned and what it sent
CallerKeepsResult ==
  /\ call.pc = "done"
  /\ previous' = Some([call |-> call, result |-> result, requests |-> requests])
  /\ call' = IdleCall
  /\ result' = None
  /\ requests' = <<>>
  /\ responses' = <<>>
  /\ logs' = {}
  /\ UNCHANGED <<config, adc, store, created, provider, discoveries, remote, other>>

\* the call about to be made has the arguments of the one before
Repeats(op, bucket, prefix, key) ==
  IF previous = None THEN TRUE
  ELSE LET p == Unwrap(previous).call
       IN  p.op = op /\ p.bucket = bucket /\ p.prefix = prefix /\ p.key = key

NextRepeat ==
  \/ CreateStorageProvider
  \/ CallerKeepsResult
  \/ \E bucket \in RepeatBuckets, prefix \in Prefixes :
       Repeats("list", bucket, prefix, <<>>) /\ ListObjects(bucket, prefix)
  \/ ListObjectsPage
  \/ \E bucket \in RepeatBuckets, key \in ObjectKeys :
       Repeats("get", bucket, None, key) /\ GetObject(bucket, key)

SpecRepeat == InitRepeat /\ [][NextRepeat]_vars

----------------------------------------------------------------------------
(* Two callers on one shared handle *)

ConcurrentStores ==
  {StoreOf(n, <<a>>) : n \in 1..MaxConcurrentPages, a \in PageKinds}

ConcurrentPrefixes == {None, Some(<<"a", "+">>)}

InitConcurrent ==
  /\ config \in DeployedConfigs
  /\ adc \in BOOLEAN
  /\ store \in ConcurrentStores
  /\ created = None
  /\ provider = None
  /\ discoveries = 0
  /\ call = IdleCall
  /\ result = None
  /\ requests = <<>>
  /\ responses = <<>>
  /\ logs = {}
  /\ remote \in Policies
  /\ previous = None
  /\ other = IdleCaller

\* the caller whose steps are taken
Running ==
  [call |-> call, result |-> result, requests |-> requests,
   responses |-> responses, logs |-> logs]

\* the executor suspends the running caller at an await and resumes the other
Switch ==
  /\ provider # None
  /\ other # Running
  /\ call' = other.call
  /\ result' = other.result
  /\ requests' = other.requests
  /\ responses' = other.responses
  /\ logs' = other.logs
  /\ other' = Running
  /\ UNCHANGED <<config, adc, store, created, provider, discoveries, remote, previous>>

NextConcurrent ==
  \/ CreateStorageProvider
  \/ Switch
  \/ CallerTakesResult
  \/ \E prefix \in ConcurrentPrefixes : ListObjects(<<"b">>, prefix)
  \/ ListObjectsPage
  \/ GetObject(<<"b">>, K1)

SpecConcurrent == InitConcurrent /\ [][NextConcurrent]_vars

----------------------------------------------------------------------------
(* Vocabulary of the properties *)

Done == call.pc = "done"

Res == Unwrap(result)

IsGcs == provider # None /\ Unwrap(provider).kind = "gcs"

IsAws == provider # None /\ Unwrap(provider).kind = "aws"

Mode == Unwrap(provider).client

AnonymousList == IsGcs /\ Mode = "Anonymous" /\ call.op = "list"

AnonymousGet == IsGcs /\ Mode = "Anonymous" /\ call.op = "get"

\* the message has this literal piece of text
HasPart(m, lit) == \E i \in 1..Len(m.parts) : m.parts[i] = lit

\* the message prints this value
HasArg(m, v) == \E i \in 1..Len(m.args) : m.args[i] = v

\* a 200 response whose body parses
SuccessfulPage(r) == ~r.transport /\ r.status = 200 /\ r.body.wellformed

AllPagesSuccessful == \A i \in 1..Len(responses) : SuccessfulPage(responses[i])

\* names carried by the listing responses received so far, in order
NamesReceived ==
  Flatten([i \in 1..Len(responses) |->
             [j \in 1..Len(responses[i].body.items) |-> responses[i].body.items[j].name]])

LastResponse == responses[Len(responses)]

\* error classes as a caller can tell them apart from the message
ErrorClass(m) ==
  IF \E i \in 1..Len(m.parts) :
       m.parts[i] \in
         {"' requires authentication. Please set GCS_PROJECT_ID and optionally GCS_SERVICE_ACCOUNT_KEY_PATH environment variables.",
          "' requires authentication. Please set GCS_PROJECT_ID and optionally GCS_SERVICE_ACCOUNT_KEY_PATH environment variables. Error: "}
  THEN "AccessDenied"
  ELSE IF HasPart(m, "' not found. Please check the bucket name and project configuration.")
  THEN "NotFound"
  ELSE IF HasPart(m, "Failed to access GCS bucket '") \/ HasPart(m, "Failed to access GCS object '")
  THEN "GenericStatus"
  ELSE IF HasPart(m, "GCS bucket name cannot be empty. Please check your BUCKET_NAME environment variable.")
  THEN "Configuration"
  ELSE "Transport"

----------------------------------------------------------------------------
(* Properties *)

\* C1: a successful list_objects returns every key of the remote listing that
\* matches the prefix, on every backend and in every access mode
C1_ListReturnsAllKeys ==
  (Done /\ call.op = "list" /\ IsOk(Res))
    => Res.ok = AllMatchingKeys(store, call.prefix)

\* C2: a selector other than "aws" and "gcs" (matched case-sensitively) makes
\* the factory return the "Unsupported storage provider: <selector>. Supported
\* providers: aws, gcs" error, and nothing is constructed
C2_UnsupportedSelectorRejected ==
  (created # None /\ config.storage_provider \notin {"aws", "gcs"})
    => /\ IsErr(Unwrap(created))
       /\ Unwrap(created).err.parts =
            <<"Unsupported storage provider: ", ". Supported providers: aws, gcs">>
       /\ Unwrap(created).err.args = << <<config.storage_provider>> >>
       /\ provider = None
       /\ discoveries = 0

C2_Witness ==
  /\ created # None
  /\ config.storage_provider = "GCS"
  /\ config.gcs_project_id # None
  /\ IsErr(Unwrap(created))

\* C3: selector "gcs" without a project id fails with "GCS_PROJECT_ID required"
\* before GcsProvider::new is entered (no credential discovery); selector
\* "aws" without a project id succeeds
C3_MissingProjectIdFailsFast ==
  /\ (created # None /\ config.storage_provider = "gcs" /\ config.gcs_project_id = None)
       => /\ IsErr(Unwrap(created))
          /\ HasPart(Unwrap(created).err, "GCS_PROJECT_ID required when using GCS provider")
          /\ provider = None
          /\ discoveries = 0
  /\ (created # None /\ config.storage_provider = "aws" /\ config.gcs_project_id = None)
       => IsOk(Unwrap(created)) /\ IsAws

C3_Witness ==
  /\ created # None
  /\ config.storage_provider = "gcs"
  /\ config.gcs_project_id = None
  /\ adc
  /\ IsErr(Unwrap(created))

\* C4: list_objects with the empty bucket name fails without any remote
\* request, on both backends
C4_EmptyBucketNoRequest ==
  (Done /\ call.op = "list" /\ call.bucket = <<>>)
    => IsErr(Res) /\ requests = <<>>

\* C5: an anonymous listing of n successful pages (n at most the cap, the
\* last page without token) issues exactly n requests, the first without
\* pageToken and each next one carrying the token of the page before, and
\* returns Ok with the pages' names concatenated in response order
C5_AnonymousListingConcatenatesPages ==
  (Done /\ AnonymousList /\ call.bucket # <<>> /\ AllPagesSuccessful
     /\ Len(store) <= PageCap)
    => /\ Len(requests) = Len(store)
       /\ requests[1].pageToken = None
       /\ \A i \in 1..(Len(requests) - 1) :
            /\ "nextPageToken" \in responses[i].body.fields
            /\ requests[i + 1].pageToken # None
            /\ UrlDecode(Unwrap(requests[i + 1].pageToken))
                 = responses[i].body.nextPageToken
       /\ "nextPageToken" \notin LastResponse.body.fields
       /\ IsOk(Res)
       /\ Res.ok = NamesReceived
       /\ Res.ok = AllMatchingKeys(store, call.prefix)

\* three pages, names on several of them, one name reported twice
C5_Witness ==
  /\ Done /\ AnonymousList /\ AllPagesSuccessful
  /\ Len(store) = 3
  /\ Len(requests) = 3
  /\ IsOk(Res)
  /\ Len(Res.ok) >= 4
  /\ \E i, j \in 1..Len(Res.ok) : i < j /\ Res.ok[i] = Res.ok[j]

\* no matching object: Ok with the empty sequence, items absent or empty
C5_WitnessEmpty ==
  /\ Done /\ AnonymousList /\ AllPagesSuccessful
  /\ IsOk(Res) /\ Res.ok = <<>>
  /\ \E i \in 1..Len(responses) : "items" \in responses[i].body.fields
  /\ \E i \in 1..Len(responses) : "items" \notin responses[i].body.fields

\* C6: an anonymous list_objects call never issues more than ten page
\* requests; when every page carries a token it returns, after exactly ten
\* requests, Ok with the names of those ten pages
C6_PageCap ==
  /\ AnonymousList => Len(requests) <= PageCap
  /\ (AnonymousList /\ call.pc = "list_loop") => Len(requests) < PageCap
  /\ (Done /\ AnonymousList /\ call.bucket # <<>> /\ AllPagesSuccessful
        /\ Len(store) > PageCap)
       => /\ Len(requests) = PageCap
          /\ IsOk(Res)
          /\ Res.ok = AllMatchingKeys(SubSeq(store, 1, PageCap), call.prefix)

C6_Witness ==
  /\ Done /\ AnonymousList /\ AllPagesSuccessful
  /\ Len(store) > PageCap
  /\ Len(requests) = PageCap
  /\ "nextPageToken" \in LastResponse.body.fields
  /\ IsOk(Res) /\ Len(Res.ok) >= PageCap

\* C7: in anonymous list_objects a 404 page response gives the not-found
\* error naming the bucket, 401/403 the authentication error naming the
\* bucket and the configuration inputs, any other 4xx the generic error with
\* the raw status, and a send or parse failure yet another message
C7_ListStatusClassification ==
  (Done /\ AnonymousList /\ call.bucket # <<>> /\ responses # <<>>)
    => /\ (~LastResponse.transport /\ LastResponse.status = 404)
            => /\ IsErr(Res)
               /\ ErrorClass(Res.err) = "NotFound"
               /\ Res.err.parts[1] = "GCS bucket '"
               /\ Res.err.args = <<call.bucket>>
       /\ (~LastResponse.transport /\ LastResponse.status \in {401, 403})
            => /\ IsErr(Res)
               /\ ErrorClass(Res.err) = "AccessDenied"
               /\ Res.err.parts[1] = "GCS bucket '"
               /\ Res.err.args = <<call.bucket>>
       /\ (~LastResponse.transport /\ LastResponse.status \in 400..499
             /\ LastResponse.status \notin {401, 403, 404})
            => /\ IsErr(Res)
               /\ ErrorClass(Res.err) = "GenericStatus"
               /\ Res.err.args = <<call.bucket, <<ToString(LastResponse.status)>> >>
       /\ (LastResponse.transport
             \/ (LastResponse.status \notin 400..499 /\ ~LastResponse.body.wellformed))
            => /\ IsErr(Res)
               /\ ErrorClass(Res.err) = "Transport"

C7_Witness ==
  /\ Done /\ AnonymousList
  /\ Len(responses) = 2
  /\ ~LastResponse.transport /\ LastResponse.status = 404
  /\ IsErr(Res)

\* C8: get_object on a non-empty bucket returns the body of a 200 response
\* unchanged, answers 404 with a not-found error distinct from the
\* access-denied and generic ones, and 401/403 with the access-denied error
\* naming key and bucket
C8_GetObjectClassification ==
  (Done /\ AnonymousGet /\ call.bucket # <<>> /\ ~LastResponse.transport)
    => /\ (LastResponse.status = 200 /\ LastResponse.readable)
            => Res = Ok(LastResponse.bytes)
       /\ LastResponse.status = 404
            => IsErr(Res) /\ ErrorClass(Res.err) = "NotFound"
       /\ LastResponse.status \in {401, 403}
            => /\ IsErr(Res)
               /\ ErrorClass(Res.err) = "AccessDenied"
               /\ Res.err.args = <<call.key, call.bucket>>

\* C9: once built, the handle never changes (mode included), credential
\* discovery is never run again, and every request of a call goes through
\* the client of the handle's mode
C9_ModeFixed ==
  [][provider # None =>
       /\ provider' = provider
       /\ discoveries' = discoveries
       /\ \A i \in 1..Len(requests') :
            requests'[i].channel =
              (CASE Unwrap(provider).client = "Authenticated" -> "gcs_sdk"
                 [] Unwrap(provider).client = "Anonymous" -> "http"
                 [] OTHER -> "s3")]_vars

\* an Authenticated handle after a 401 failure
C9_Witness ==
  /\ Done /\ IsGcs /\ Mode = "Authenticated"
  /\ requests # <<>>
  /\ IsErr(Res) /\ ErrorClass(Res.err) = "AccessDenied"

\* C10: GcsProvider::new returns Ok whatever the credentials; the mode is
\* Authenticated exactly when ambient discovery succeeds, whatever the
\* credential-path hint
C10_ConstructionNeverFailsOnCredentials ==
  (created # None /\ config.storage_provider = "gcs" /\ config.gcs_project_id # None)
    => /\ IsOk(Unwrap(created))
       /\ IsGcs
       /\ discoveries = 1
       /\ Unwrap(provider).project_id = Unwrap(config.gcs_project_id)
       /\ (Mode = "Authenticated") = adc
       /\ (Mode = "Anonymous") = ~adc

C10_Witness ==
  /\ created # None
  /\ config.storage_provider = "gcs"
  /\ config.gcs_service_account_key_path # None
  /\ ~adc
  /\ IsGcs /\ Mode = "Anonymous"

\* C11: a call repeated with the same arguments on the same handle, the remote
\* unchanged, returns what the call before returned and sends the requests the
\* call before sent, every one of them again.
C11_RepeatedCallIdentical ==
  (Done /\ previous # None)
    => /\ result = Unwrap(previous).result
       /\ requests = Unwrap(previous).requests

C11_Witness ==
  /\ Done /\ previous # None /\ AnonymousList
  /\ Len(requests) >= 2 /\ IsOk(Res) /\ Res.ok # <<>>

\* the sequential run of the anonymous pagination loop from the locals c
RECURSIVE ListAlone(_, _, _)
ListAlone(st, rm, c) ==
  LET req == next_url(c)
      resp == CHOOSE r \in Permitted(rm, PageAsked(st, req), HttpListResponses(st, req)) : TRUE
      out == Anonymous_list_iteration(c, resp)
  IN  IF out.ret # None THEN Unwrap(out.ret) ELSE ListAlone(st, rm, out.call)

\* what the call c returns when nothing else runs on the handle h
ResultAlone(h, st, rm, c) ==
  LET one(answers) == CHOOSE r \in Permitted(rm, 1, answers) : TRUE
  IN  IF h.kind = "aws"
      THEN IF c.op = "list"
           THEN Aws_list_objects(c.bucket, c.prefix,
                                 one(S3ListResponses(st, Aws_list_request(c.bucket, c.prefix)))).ret
           ELSE Aws_get_object(c.bucket, c.key,
                               one(SdkGetResponses(Aws_get_request(c.bucket, c.key)))).ret
      ELSE IF h.client = "Authenticated"
      THEN IF c.op = "list"
           THEN Authenticated_list_objects(c.bucket, c.prefix,
                  one(GcsSdkListResponses(st, Gcs_list_request(c.bucket, c.prefix)))).ret
           ELSE Authenticated_get_object(c.bucket, c.key,
                  one(SdkGetResponses(Gcs_get_request(c.bucket, c.key)))).ret
      ELSE IF c.op = "list"
           THEN ListAlone(st, rm, [IdleCall EXCEPT !.op = "list", !.bucket = c.bucket,
                                                    !.prefix = c.prefix])
           ELSE Anonymous_get_object(c.bucket, c.key,
                                     one(HttpGetResponses(get_url(c.bucket, c.key)))).ret

\* the loop state of a caller is what its own requests and responses make it
LocalsPrivate(w) ==
  w.call.pc = "list_loop"
    => /\ w.call.page_count = Len(w.requests)
       /\ Len(w.responses) = Len(w.requests)
       /\ w.call.all_objects =
            Flatten([i \in 1..Len(w.responses) |->
                       [j \in 1..Len(w.responses[i].body.items) |->
                          w.responses[i].body.items[j].name]])
       /\ w.call.page_token =
            (IF w.responses = <<>> THEN None
             ELSE Some(w.responses[Len(w.responses)].body.nextPageToken))

\* C12: calls running concurrently on one shared handle do not interfere: the
\* page counter, the token and the accumulated items of a call come from its
\* own pages only, the handle stays as it was constructed, and every call
\* returns what it returns when run alone against the same remote.
C12_ConcurrentCallsIndependent ==
  /\ provider # None => created = Some(Ok(Unwrap(provider)))
  /\ \A w \in {Running, other} :
       /\ LocalsPrivate(w)
       /\ w.call.pc = "done"
            => Unwrap(w.result) = ResultAlone(Unwrap(provider), store, remote, w.call)

C12_Witness ==
  /\ Done /\ AnonymousList /\ IsOk(Res) /\ Len(requests) = 3
  /\ other.call.pc = "done" /\ other.call.op = "list"
  /\ other.call.prefix # call.prefix
  /\ Len(other.requests) = 3 /\ IsOk(Unwrap(other.result))
  /\ Unwrap(other.result) # Res

\* a page response that ends the listing with an error: the request failed,
\* the status is a 4xx, or the body does not parse
FailedPage(r) == r.transport \/ r.status \in 400..499 \/ ~r.body.wellformed

\* C13: no retries.  In anonymous list_objects nothing is requested after a
\* failed page, the failed page ends the call with an error (not a partial
\* listing), and no page is requested twice; get_object issues one request
C13_NoRetry ==
  /\ AnonymousList =>
       /\ \A i \in 1..(Len(responses) - 1) : ~FailedPage(responses[i])
       /\ (responses # <<>> /\ FailedPage(LastResponse)) => (Done /\ IsErr(Res))
       /\ \A i, j \in 1..Len(requests) :
            i # j => requests[i].pageToken # requests[j].pageToken
  /\ (Done /\ call.op = "get") =>
       Len(requests) = (IF IsGcs /\ call.bucket = <<>> THEN 0 ELSE 1)

\* the third page fails after names were accumulated from the first two
C13_Witness ==
  /\ Done /\ AnonymousList
  /\ Len(responses) = 3
  /\ FailedPage(LastResponse)
  /\ call.all_objects # <<>>
  /\ IsErr(Res)

\* C14: the "stopped fetching" warning is emitted exactly when the loop stops
\* at the page cap with a continuation token still outstanding
C14_WarningOnlyWhenTruncated ==
  (Done /\ AnonymousList /\ call.bucket # <<>> /\ IsOk(Res))
    => (("stopped_fetching_after_pages" \in logs)
          <=> (Len(requests) = PageCap /\ "nextPageToken" \in LastResponse.body.fields))

\* the remote refused or failed the last request of the call
RemoteRefused ==
  IF Mode = "Authenticated" THEN IsErr(LastResponse) ELSE FailedPage(LastResponse)

\* C15: on the primary backend a suspicious but non-empty bucket name is
\* warned about and the request still goes out, the outcome being the one the
\* remote response determines; only the empty name is rejected locally
C15_SuspiciousBucketNotRejected ==
  (Done /\ IsGcs /\ call.op = "list")
    => IF call.bucket = <<>>
       THEN requests = <<>> /\ IsErr(Res) /\ ErrorClass(Res.err) = "Configuration"
       ELSE /\ requests # <<>>
            /\ \A i \in 1..Len(requests) : requests[i].bucket = call.bucket
            /\ ("invalid_bucket_name_format" \in logs)
                 <=> (call.bucket \in {<<"B">>, <<"b", "_">>, <<"b", " ">>})
            /\ IsErr(Res) <=> RemoteRefused
            /\ IsErr(Res) => ErrorClass(Res.err) # "Configuration"

C15_Witness ==
  /\ Done /\ IsGcs /\ call.op = "list"
  /\ call.bucket = <<"b", " ">>
  /\ "invalid_bucket_name_format" \in logs
  /\ IsOk(Res) /\ Res.ok # <<>>

\* C16: anonymous get_object returns Ok(bytes) only for a 2xx response
C16_GetOkOnlyOnSuccessStatus ==
  (Done /\ AnonymousGet /\ IsOk(Res)) => LastResponse.status \in 200..299

====
